---- MODULE Spec2Model ----
(***************************************************************************)
(* Model of the crawl engine of scraper.py (class AratapScraper).          *)
(*                                                                         *)
(* One process (a "run") is the asyncio program started by main(): the     *)
(* constructor loads the checkpoint, scrape_all_pages dispatches one       *)
(* fetch_page per index page, joins them with gather, parses the pages in  *)
(* page order and enriches the discovered listings one after the other.    *)
(* fetch_page is the recursive retry routine guarded by the semaphore.     *)
(* The termination signal handler can run between any two steps; every     *)
(* action below changes at most one of processed_urls, all_listings and    *)
(* failed_urls, so the states between actions are exactly the states a     *)
(* handler can snapshot.  After a process has ended a new one can be       *)
(* started on the checkpoint file the previous ones left.                  *)
(*                                                                         *)
(* The crawl range is configured (start_page = 1, end_page = last page of  *)
(* the modelled site), the branch of scrape_all_pages with end_page set.   *)
(***************************************************************************)
EXTENDS Integers, Sequences, FiniteSets, TLC

\* ------------------------------------------------------------------ bounds
MaxConcurrent == 2
MaxRetries == 2
MaxInterval == 2
MaxRuns == 2
MaxFailures == 2
MaxFields == 2
MaxValues == 2
MaxWriteFailures == 1
MaxRecords == 2
MaxLinks == 2
MaxPageNo == 3

\* ------------------------------------------------------------- the site
\* A URL is a pair: <<"page", n>> for an index page, <<"item", k>> for a
\* detail page.
ItemA == <<"item", 1>>
ItemB == <<"item", 2>>

\* The index pages a site serves: page p lists the item URLs Site[p].
\* SiteGap has an empty second page, SiteDup lists one item on two pages,
\* SiteSkip lists each item twice on its page.
SiteGap == << <<ItemA>>, << >>, <<ItemB>> >>
SiteDup == << <<ItemA>>, <<ItemA>>, <<ItemB>> >>
SiteSkip == << <<ItemA, ItemA>>, <<ItemB, ItemB>> >>
Sites == {SiteGap, SiteDup, SiteSkip}

\* Outcomes of one network call (session.get + response.text()).
OkBodies == {"html", "empty"}
FailKinds == {"status", "timeout", "error"}

VARIABLES
    max_concurrent,      \* self.max_concurrent
    max_retries,         \* self.max_retries
    auto_save_interval,  \* self.auto_save_interval
    fetch_details,       \* self.fetch_details
    resume,              \* self.resume
    site,                \* what the index pages of the web site list
    all_listings,        \* self.all_listings: sequence of Records
    failed_urls,         \* self.failed_urls: sequence of URLs
    processed_urls,      \* self.processed_urls: set of URLs
    semaphore,           \* free permits of self.semaphore
    shutdown_requested,  \* self.shutdown_requested
    checkpoint,          \* the checkpoint file
    pc,                  \* position of the crawl (scrape_all_pages)
    fetch,               \* the fetch_page calls: 0 = detail, p = index page p
    all_listing_cards,   \* local of scrape_all_pages
    i,                   \* loop index of the enrichment loop (1-based)
    detailed_listing,    \* value fetch_listing_details is about to return
    htmls,               \* local of scrape_all_pages: what gather returned
    stopped_at,          \* page at which the parse loop hit its break, or 0
    detail_issued,       \* URLs a detail fetch was issued for in this run
    run,                 \* number of the current process
    failures,            \* network calls so far, all runs, that failed or
                         \* answered with an empty body
    output,              \* the Records in the output file of this process
    frame,               \* _signal_handler's frame: where the signal hit
    listing_dict,        \* fetch_listing_details: listing, the summary dict
    details_dict,        \* fetch_listing_details: details, the detail dict
    merged_dict,         \* fetch_listing_details: merged, once it is made
    out_of_order,        \* some index fetch returned before one of a lower page
    write_failures,      \* checkpoint writes so far, all runs, that failed
    exit_status,         \* exit status of the process, NotExited while it runs
    checkpoint_file,     \* the checkpoint file as the JSON document it holds
    saved,               \* the three collections as they were at the last save
    load_error,          \* _load_checkpoint has logged an error
    csv_file,            \* save_to_csv: the output file
    backup_file,         \* save_to_csv: the _backup.json file
    returned,            \* save_to_csv: what the call returned
    first_csv,           \* the first output file written
    writes,              \* save_to_csv: the writes the last call attempted
    page1,               \* detect_last_page: what the fetch of page 1 gave
    detected             \* detect_last_page: the value returned

cfgVars == <<max_concurrent, max_retries, auto_save_interval, fetch_details,
             resume, site>>
vars == <<max_concurrent, max_retries, auto_save_interval, fetch_details,
          resume, site, all_listings, failed_urls, processed_urls, semaphore,
          shutdown_requested, checkpoint, pc, fetch, all_listing_cards, i,
          detailed_listing, htmls, stopped_at, detail_issued, run, failures,
          output, frame, listing_dict, details_dict, merged_dict,
          out_of_order, write_failures, exit_status, checkpoint_file, saved,
          load_error, csv_file, backup_file, returned, first_csv, writes,
          page1, detected>>
ckptVars == <<checkpoint_file, saved, load_error>>
csvVars == <<csv_file, backup_file, returned, first_csv, writes>>
detectVars == <<page1, detected>>
pureVars == <<ckptVars, csvVars, detectVars>>
mergeVars == <<listing_dict, details_dict, merged_dict>>

\* ----------------------------------------------------------- pure helpers
start_page == 1
end_page == Len(site)
Pages == start_page..end_page
DetailId == 0

Range(s) == {s[k] : k \in DOMAIN s}

RECURSIVE Pow2(_)
Pow2(n) == IF n = 0 THEN 1 ELSE 2 * Pow2(n - 1)

get_page_url(page) == <<"page", page>>

NoRecord == [url |-> <<"none", 0>>, merged |-> FALSE]

\* A fetch_page call chain that has not been started.
IdleFetch == [pc |-> "idle", url |-> <<"none", 0>>, retry_count |-> 0,
              held |-> 0, attempts |-> 0, delays |-> << >>,
              result |-> "pending", last_failure |-> "none"]

NewFetch(url) == [IdleFetch EXCEPT !.url = url]

NoCheckpoint == [exists |-> FALSE, processed_urls |-> {},
                 listings |-> << >>, failed_urls |-> << >>]

\* Variant of Snapshot that leaves the failed URLs out of the file.
SnapshotWithoutFailed(processed, listings, failed) ==
    [exists |-> TRUE, processed_urls |-> processed,
     listings |-> listings, failed_urls |-> << >>]

\* _save_checkpoint: the snapshot written to the checkpoint file.
Snapshot(processed, listings, failed) ==
    [exists |-> TRUE, processed_urls |-> processed,
     listings |-> listings, failed_urls |-> failed]

\* Outcomes of one _save_checkpoint call: the file is written; open() fails
\* and the file stays as it was; open() has truncated the file and the dump
\* fails, which leaves a file that json.load cannot read.  The exception is
\* caught inside _save_checkpoint in both failure cases.
WriteOutcomes == {"saved", "unchanged", "partial"}
WriteFailed(outcome) == outcome # "saved"
PartialCheckpoint == [exists |-> TRUE, processed_urls |-> {},
                      listings |-> << >>, failed_urls |-> << >>,
                      partial |-> TRUE]
SaveCheckpoint(outcome, old, processed, listings, failed) ==
    CASE outcome = "saved" -> Snapshot(processed, listings, failed)
      [] outcome = "unchanged" -> old
      [] outcome = "partial" -> PartialCheckpoint

\* _load_checkpoint: json.load raises on a partial file; the exception is
\* caught and nothing is loaded.
Readable(file) == "partial" \notin DOMAIN file

\* The number of failed writes after one more call with this outcome.
CountWrite(outcome, wf) == IF WriteFailed(outcome) THEN wf + 1 ELSE wf

\* Variant of MainExit in which main swallows the exception.
MainExitAlwaysZero(outcome) == 0

\* main and asyncio.run: the exit status of the process.  scrape_all_pages
\* returns, or the handler's sys.exit(0) ends the process, or an Exception
\* reaches main's `except Exception`, which calls sys.exit(1).
MainExit(outcome) == IF outcome = "Exception" THEN 1 ELSE 0
NotExited == -1

\* Variant of CanAcquire with the permit test off by one.
CanAcquireOffByOne(sem) == sem >= 0

\* asyncio.Semaphore.acquire succeeds at once iff a permit is free.
CanAcquire(sem) == sem > 0

\* Variant of ShouldRetry that allows one retry too many.
ShouldRetryInclusive(retry_count, retries) == retry_count <= retries

\* fetch_page: the retry test `retry_count < self.max_retries`.
ShouldRetry(retry_count, retries) == retry_count < retries

\* Variant of BackoffDelay with a product in place of the power.
BackoffDelayLinear(retry_count) == 2 * retry_count

\* fetch_page: the backoff `2 ** retry_count`.
BackoffDelay(retry_count) == Pow2(retry_count)

\* fetch_page returning r from the innermost frame: every enclosing
\* `async with self.semaphore` of the recursion releases on the way out.
ReturnFetch(f, r) == [f EXCEPT !.pc = "done", !.result = r, !.held = 0]

\* Entry of one fetch_page frame up to its first suspension: the shutdown
\* test, then the semaphore (taken at once if free, otherwise the frame
\* waits), then the start of the network call.
EnterFrame(f, sem, shut) ==
    IF shut
    THEN [f |-> ReturnFetch(f, "None"), sem |-> sem + f.held]
    ELSE IF CanAcquire(sem)
         THEN [f |-> [f EXCEPT !.pc = "net", !.held = @ + 1,
                               !.attempts = @ + 1],
               sem |-> sem - 1]
         ELSE [f |-> [f EXCEPT !.pc = "wait"], sem |-> sem]

\* No fetch_page call exists: before the dispatch, and once the results of
\* the calls have been taken over by their caller.
NoFetches == [t \in {DetailId} \cup Pages |-> IdleFetch]

\* scrape_all_pages: tasks are started by gather in page order.
RECURSIVE DispatchFrom(_, _, _, _, _)
DispatchFrom(page, last, fs, sem, shut) ==
    IF page > last THEN [fs |-> fs, sem |-> sem]
    ELSE LET e == EnterFrame(NewFetch(get_page_url(page)), sem, shut)
         IN DispatchFrom(page + 1, last, [fs EXCEPT ![page] = e.f], e.sem,
                         shut)

\* parse_listing_card: a card whose URL is in processed_urls is dropped.
CardKept(url, processed) == url \notin processed

RECURSIVE parse_listing_cards(_, _)
parse_listing_cards(items, processed) ==
    IF items = << >> THEN << >>
    ELSE LET rest == parse_listing_cards(Tail(items), processed)
         IN IF CardKept(Head(items), processed)
            THEN <<[url |-> Head(items), merged |-> FALSE]>> \o rest
            ELSE rest

\* Variant of Truthy under which only None is false.
TruthyNotNone(html) == html # "None"

\* `if html:` in scrape_all_pages and fetch_listing_details: None and the
\* empty string are both false.
Truthy(html) == html = "html"

\* Variant of IsEmptyStop under which an empty page never stops the loop.
IsEmptyStopNever(page_num, first) == FALSE

\* Variant of IsEmptyStop under which the first page stops the loop too.
IsEmptyStopAlsoFirst(page_num, first) == page_num >= first

\* scrape_all_pages: an empty page stops the loop `if page_num >
\* self.start_page`.
IsEmptyStop(page_num, first) == page_num > first

\* Variant of ResultOf that pairs the pages with the results in reverse.
ResultOfReversed(fs, page) == fs[start_page + end_page - page].result

\* asyncio.gather returns the results in the order of the awaitables, and
\* zip(tasks, htmls) pairs each page number with the result of its task.
ResultOf(fs, page) == fs[page].result

\* scrape_all_pages: the loop that consumes the gathered pages in page order.
RECURSIVE ParsePages(_, _, _, _, _)
ParsePages(page, last, fs, st, processed) ==
    IF page > last THEN [cards |-> << >>, stop |-> 0]
    ELSE IF Truthy(ResultOf(fs, page))
         THEN LET listings == parse_listing_cards(st[page], processed)
              IN IF listings # << >>
                 THEN LET r == ParsePages(page + 1, last, fs, st, processed)
                      IN [cards |-> listings \o r.cards, stop |-> r.stop]
                 ELSE IF IsEmptyStop(page, start_page)
                      THEN [cards |-> << >>, stop |-> page]
                      ELSE ParsePages(page + 1, last, fs, st, processed)
         ELSE ParsePages(page + 1, last, fs, st, processed)

\* The field names and values of the dicts of fetch_listing_details.
FieldNames == <<"url", "title", "price", "description">>
Keys == {FieldNames[k] : k \in 1..MaxFields}
Values == 1..MaxValues
NoValue == << >>
Dicts == UNION {[K -> Values] : K \in SUBSET Keys}

\* Variant of MergeDict in which the summary wins on a key of both.
MergeDictSummaryWins(s, d) ==
    [k \in DOMAIN s \cup DOMAIN d |-> IF k \in DOMAIN s THEN s[k] ELSE d[k]]

\* fetch_listing_details: `merged = {**listing, **details}` on the dicts.
MergeDict(s, d) ==
    [k \in DOMAIN s \cup DOMAIN d |-> IF k \in DOMAIN d THEN d[k] ELSE s[k]]

\* Variant of Merge that returns the summary instead of the merged Record.
MergeKeepsSummary(listing) == listing

\* fetch_listing_details: merged = {**listing, **details}.
Merge(listing) == [listing EXCEPT !.merged = TRUE]

\* Variant of EnrichSkip without the test in the enrichment loop.
EnrichSkipNever(url, processed) == FALSE

\* scrape_all_pages: `if listing.get('url') in self.processed_urls: continue`.
EnrichSkip(url, processed) == url \in processed

\* Index of the first listing at or after j that the enrichment loop does
\* not skip, or Len(cards) + 1 if the loop runs out.
RECURSIVE NextToEnrich(_, _, _)
NextToEnrich(j, cards, processed) ==
    IF j > Len(cards) THEN j
    ELSE IF EnrichSkip(cards[j].url, processed)
         THEN NextToEnrich(j + 1, cards, processed)
         ELSE j

\* Variant of ListAppend that overwrites the first Record of the same URL,
\* if there is one, instead of appending.
ListAppendReplacing(listings, record) ==
    IF \E k \in DOMAIN listings : listings[k].url = record.url
    THEN LET first == CHOOSE k \in DOMAIN listings :
                          /\ listings[k].url = record.url
                          /\ \A j \in 1..(k - 1) : listings[j].url # record.url
         IN [listings EXCEPT ![first] = record]
    ELSE Append(listings, record)

\* Variant of ListAppend that puts the Record in front.
ListPrepend(listings, record) == <<record>> \o listings

\* scrape_all_pages line 541: `self.all_listings.append(detailed_listing)`.
ListAppend(listings, record) == Append(listings, record)

\* Variant of ListExtend that leaves out the cards whose URL already has a
\* Record.
ListExtendUnseen(listings, cards) ==
    listings \o SelectSeq(cards,
                          LAMBDA c : \A k \in DOMAIN listings :
                                         listings[k].url # c.url)

\* scrape_all_pages line 557: `self.all_listings.extend(all_listing_cards)`.
ListExtend(listings, cards) == listings \o cards

\* _save_progress: save_to_csv writes all Records to the output file, unless
\* there are none.
WriteOutput(listings, out) == IF listings # << >> THEN listings ELSE out

\* Variant of AutoSaveDue that is never due.
AutoSaveNever(idx, interval) == FALSE

\* The auto-save test `(i + 1) % self.auto_save_interval == 0` (i 0-based).
AutoSaveDue(idx, interval) == idx % interval = 0

\* The variables of the specifications of single routines, at rest.
NoFile == [exists |-> FALSE]
\* detect_last_page: fetch_page returned None for page 1.
FetchFailed ==
    [fetched |-> FALSE, html |-> "", pagination |-> FALSE,
     page_links |-> << >>]
NotDetected == 0
CheckpointIdle ==
    checkpoint_file = NoFile /\ saved = << >> /\ load_error = FALSE
CsvIdle ==
    /\ csv_file = NoFile
    /\ backup_file = NoFile
    /\ returned = "pending"
    /\ first_csv = NoFile
    /\ writes = << >>
DetectIdle == page1 = FetchFailed /\ detected = NotDetected
PureIdle == CheckpointIdle /\ CsvIdle /\ DetectIdle

\* -------------------------------------------------------------------- Init
\* The state of the first process after AratapScraper.__init__: no
\* checkpoint file exists yet.
Init ==
    /\ max_concurrent \in 1..MaxConcurrent
    /\ max_retries \in 0..MaxRetries
    /\ auto_save_interval \in 1..MaxInterval
    /\ fetch_details \in BOOLEAN
    /\ resume \in BOOLEAN
    /\ site \in Sites
    /\ all_listings = << >>
    /\ failed_urls = << >>
    /\ processed_urls = {}
    /\ semaphore = max_concurrent
    /\ shutdown_requested = FALSE
    /\ checkpoint = NoCheckpoint
    /\ pc = "start"
    /\ fetch = NoFetches
    /\ all_listing_cards = << >>
    /\ i = 0
    /\ detailed_listing = NoRecord
    /\ htmls = << >>
    /\ stopped_at = 0
    /\ detail_issued = {}
    /\ run = 1
    /\ failures = 0
    /\ output = << >>
    /\ frame = "none"
    /\ listing_dict = << >>
    /\ details_dict = << >>
    /\ merged_dict = NoValue
    /\ out_of_order = FALSE
    /\ write_failures = 0
    /\ exit_status = NotExited
    /\ PureIdle

\* ----------------------------------------------------------------- actions
Alive == pc \notin {"exited", "finished", "crashed"}

\* A fetch_page call can take a step while the coroutine that awaits it is
\* suspended on it: the index pages under gather, the detail page under
\* fetch_listing_details.
FetchRunning(t) ==
    IF t = DetailId THEN pc = "detail_fetch" ELSE pc = "gather"

\* Variant of Dispatch that leaves out the last page of the range.
DispatchWithoutLast ==
    /\ pc = "start"
    /\ LET d == DispatchFrom(start_page, end_page - 1, fetch, semaphore,
                             shutdown_requested)
       IN /\ fetch' = d.fs
          /\ semaphore' = d.sem
    /\ pc' = "gather"
    /\ UNCHANGED <<cfgVars, mergeVars, pureVars, write_failures, exit_status, out_of_order, output, frame, all_listings, failed_urls, processed_urls,
                   shutdown_requested, checkpoint, all_listing_cards, i,
                   detailed_listing, htmls, stopped_at, detail_issued, run,
                   failures>>

\* scrape_all_pages lines 493-503: create one fetch_page per page of the
\* range and start them all with gather.
Dispatch ==
    /\ pc = "start"
    /\ LET d == IF shutdown_requested
                THEN [fs |-> fetch, sem |-> semaphore]
                ELSE DispatchFrom(start_page, end_page, fetch, semaphore,
                                  shutdown_requested)
       IN /\ fetch' = d.fs
          /\ semaphore' = d.sem
    /\ pc' = "gather"
    /\ UNCHANGED <<cfgVars, mergeVars, pureVars, write_failures, exit_status, out_of_order, output, frame, all_listings, failed_urls, processed_urls,
                   shutdown_requested, checkpoint, all_listing_cards, i,
                   detailed_listing, htmls, stopped_at, detail_issued, run,
                   failures>>

\* A frame waiting in `async with self.semaphore` gets a permit and starts
\* its network call.
Acquire(t) ==
    /\ FetchRunning(t)
    /\ fetch[t].pc = "wait"
    /\ CanAcquire(semaphore)
    /\ fetch' = [fetch EXCEPT ![t].pc = "net", ![t].held = @ + 1,
                              ![t].attempts = @ + 1]
    /\ semaphore' = semaphore - 1
    /\ UNCHANGED <<cfgVars, mergeVars, pureVars, write_failures, exit_status, out_of_order, output, frame, all_listings, failed_urls, processed_urls,
                   shutdown_requested, checkpoint, pc, all_listing_cards, i,
                   detailed_listing, htmls, stopped_at, detail_issued, run,
                   failures>>

\* Fetch t has returned while the fetch of a lower page has not.
OvertakesLower(t, fs) ==
    /\ t \in Pages
    /\ fs[t].pc = "done"
    /\ \E q \in Pages : q < t /\ fs[q].pc # "done"

\* Variant of NetOk in which the fetch itself marks its URL as processed.
NetOkMarksProcessed(t, body) ==
    /\ FetchRunning(t)
    /\ fetch[t].pc = "net"
    /\ body = "empty" => failures < MaxFailures
    /\ failures' = IF body = "empty" THEN failures + 1 ELSE failures
    /\ fetch' = [fetch EXCEPT ![t] = ReturnFetch(@, body)]
    /\ semaphore' = semaphore + fetch[t].held
    /\ processed_urls' = processed_urls \cup {fetch[t].url}
    /\ out_of_order' = (out_of_order \/ OvertakesLower(t, fetch'))
    /\ UNCHANGED <<cfgVars, mergeVars, pureVars, write_failures, exit_status, output, frame, all_listings, failed_urls,
                   shutdown_requested, checkpoint, pc, all_listing_cards, i,
                   detailed_listing, htmls, stopped_at, detail_issued, run>>

\* The network call answers with status 200: fetch_page returns the body
\* (which may be the empty string) through all frames of the recursion.
NetOk(t, body) ==
    /\ FetchRunning(t)
    /\ fetch[t].pc = "net"
    /\ body = "empty" => failures < MaxFailures
    /\ failures' = IF body = "empty" THEN failures + 1 ELSE failures
    /\ fetch' = [fetch EXCEPT ![t] = ReturnFetch(@, body)]
    /\ semaphore' = semaphore + fetch[t].held
    /\ out_of_order' = (out_of_order \/ OvertakesLower(t, fetch'))
    /\ UNCHANGED <<cfgVars, mergeVars, pureVars, write_failures, exit_status, output, frame, all_listings, failed_urls, processed_urls,
                   shutdown_requested, checkpoint, pc, all_listing_cards, i,
                   detailed_listing, htmls, stopped_at, detail_issued, run>>

\* Variant of RecordsFailure under which a non-200 status is recorded too.
RecordsFailureAnyKind(kind) == TRUE

\* fetch_page: which failures append the URL to failed_urls once the
\* retries are used up (the non-200 branch returns None without it).
RecordsFailure(kind) == kind \in {"timeout", "error"}

\* The network call fails (non-200 status, timeout, other exception):
\* either the frame starts its backoff sleep, still inside the
\* `async with`, or the retries are used up and fetch_page returns None.
NetFail(t, kind) ==
    /\ FetchRunning(t)
    /\ fetch[t].pc = "net"
    /\ failures < MaxFailures
    /\ failures' = failures + 1
    /\ IF ShouldRetry(fetch[t].retry_count, max_retries)
       THEN /\ fetch' = [fetch EXCEPT
                    ![t].pc = "sleep",
                    ![t].last_failure = kind,
                    ![t].delays = Append(@, BackoffDelay(fetch[t].retry_count))]
            /\ UNCHANGED <<semaphore, failed_urls>>
       ELSE /\ fetch' = [fetch EXCEPT
                    ![t] = ReturnFetch([@ EXCEPT !.last_failure = kind],
                                       "None")]
            /\ semaphore' = semaphore + fetch[t].held
            /\ failed_urls' = IF RecordsFailure(kind)
                              THEN Append(failed_urls, fetch[t].url)
                              ELSE failed_urls
    /\ out_of_order' = (out_of_order \/ OvertakesLower(t, fetch'))
    /\ UNCHANGED <<cfgVars, mergeVars, pureVars, write_failures, exit_status, output, frame, all_listings, processed_urls,
                   shutdown_requested, checkpoint, pc, all_listing_cards, i,
                   detailed_listing, htmls, stopped_at, detail_issued, run>>

\* The backoff sleep ends: the frame calls fetch_page(retry_count + 1),
\* whose frame runs up to its first suspension.
SleepDone(t) ==
    /\ FetchRunning(t)
    /\ fetch[t].pc = "sleep"
    /\ LET e == EnterFrame([fetch[t] EXCEPT !.retry_count = @ + 1],
                           semaphore, shutdown_requested)
       IN /\ fetch' = [fetch EXCEPT ![t] = e.f]
          /\ semaphore' = e.sem
    /\ UNCHANGED <<cfgVars, mergeVars, pureVars, write_failures, exit_status, out_of_order, output, frame, all_listings, failed_urls, processed_urls,
                   shutdown_requested, checkpoint, pc, all_listing_cards, i,
                   detailed_listing, htmls, stopped_at, detail_issued, run,
                   failures>>

\* The enrichment loop from index j on, up to its next suspension: skip the
\* listings already processed, then either call fetch_listing_details (and
\* through it fetch_page) for the next one, or leave the loop and do the
\* final save.  listings is the value of all_listings, ckpt the content of
\* the checkpoint file and out that of the output file at that point.
Advance(j, cards, listings, ckpt, out, wf, outcome) ==
    LET n == IF shutdown_requested THEN Len(cards) + 1
             ELSE NextToEnrich(j, cards, processed_urls)
    IN /\ i' = n
       /\ IF n > Len(cards)
          THEN /\ pc' = "finished"
               /\ CountWrite(outcome, wf) <= MaxWriteFailures
               /\ write_failures' = CountWrite(outcome, wf)
               /\ checkpoint' = SaveCheckpoint(outcome, ckpt, processed_urls,
                                               listings, failed_urls)
               /\ output' = WriteOutput(listings, out)
               /\ exit_status' = MainExit("return")
               /\ fetch' = NoFetches
               /\ UNCHANGED <<semaphore, detail_issued>>
          ELSE LET e == EnterFrame(NewFetch(cards[n].url), semaphore,
                                   shutdown_requested)
               IN /\ pc' = "detail_fetch"
                  /\ outcome = "saved"
                  /\ write_failures' = wf
                  /\ checkpoint' = ckpt
                  /\ output' = out
                  /\ exit_status' = exit_status
                  /\ fetch' = [NoFetches EXCEPT ![DetailId] = e.f]
                  /\ semaphore' = e.sem
                  /\ detail_issued' = detail_issued \cup {cards[n].url}

\* scrape_all_pages lines 503-561: gather has joined all index fetches; the
\* pages are parsed in page order; then the enrichment loop starts, or the
\* cards are taken as they are and the final save is done.
ParseJoin(outcome) ==
    /\ pc = "gather"
    /\ \A p \in Pages : fetch[p].pc \in {"idle", "done"}
    /\ LET r == IF shutdown_requested THEN [cards |-> << >>, stop |-> 0]
                ELSE ParsePages(start_page, end_page, fetch, site,
                                processed_urls)
       IN /\ all_listing_cards' = r.cards
          /\ htmls' = [p \in Pages |-> ResultOf(fetch, p)]
          /\ stopped_at' = r.stop
          /\ IF fetch_details /\ r.cards # << >> /\ ~shutdown_requested
             THEN /\ Advance(1, r.cards, all_listings, checkpoint, output,
                             write_failures, outcome)
                  /\ UNCHANGED all_listings
             ELSE /\ all_listings' = ListExtend(all_listings, r.cards)
                  /\ CountWrite(outcome, write_failures) <= MaxWriteFailures
                  /\ write_failures' = CountWrite(outcome, write_failures)
                  /\ checkpoint' = SaveCheckpoint(outcome, checkpoint,
                                                  processed_urls, all_listings',
                                                  failed_urls)
                  /\ output' = WriteOutput(all_listings', output)
                  /\ exit_status' = MainExit("return")
                  /\ pc' = "finished"
                  /\ fetch' = NoFetches
                  /\ UNCHANGED <<semaphore, detail_issued, i>>
    /\ UNCHANGED <<cfgVars, mergeVars, pureVars, out_of_order, frame, failed_urls,
                   processed_urls, shutdown_requested, detailed_listing, run,
                   failures>>

\* fetch_listing_details lines 423-432, after fetch_page has returned.
DetailMerge ==
    /\ pc = "detail_fetch"
    /\ fetch[DetailId].pc = "done"
    /\ LET listing == all_listing_cards[i]
       IN IF Truthy(fetch[DetailId].result)
          THEN /\ processed_urls' = processed_urls \cup {listing.url}
               /\ detailed_listing' = Merge(listing)
               /\ UNCHANGED failed_urls
          ELSE /\ failed_urls' = Append(failed_urls, listing.url)
               /\ detailed_listing' = listing
               /\ UNCHANGED processed_urls
    /\ pc' = "append"
    /\ UNCHANGED <<cfgVars, mergeVars, pureVars, write_failures, exit_status, out_of_order, output, frame, all_listings, semaphore, shutdown_requested,
                   checkpoint, fetch, all_listing_cards, i, htmls, stopped_at,
                   detail_issued, run, failures>>

\* scrape_all_pages lines 541-561: append what fetch_listing_details
\* returned, auto-save when due, and go on with the loop.
AppendListing(autosave, outcome) ==
    /\ pc = "append"
    /\ all_listings' = ListAppend(all_listings, detailed_listing)
    /\ detailed_listing' = NoRecord
    /\ IF AutoSaveDue(i, auto_save_interval)
       THEN /\ CountWrite(autosave, write_failures) <= MaxWriteFailures
            /\ Advance(i + 1, all_listing_cards, all_listings',
                       SaveCheckpoint(autosave, checkpoint, processed_urls,
                                      all_listings', failed_urls),
                       WriteOutput(all_listings', output),
                       CountWrite(autosave, write_failures), outcome)
       ELSE /\ autosave = "saved"
            /\ Advance(i + 1, all_listing_cards, all_listings', checkpoint,
                       output, write_failures, outcome)
    /\ UNCHANGED <<cfgVars, mergeVars, pureVars, out_of_order, frame, failed_urls,
                   processed_urls, shutdown_requested, all_listing_cards,
                   htmls, stopped_at, run, failures>>

\* Variant of Signal that does not set the cancellation flag.
SignalWithoutFlag(outcome) ==
    /\ Alive
    /\ CountWrite(outcome, write_failures) <= MaxWriteFailures
    /\ write_failures' = CountWrite(outcome, write_failures)
    /\ checkpoint' = SaveCheckpoint(outcome, checkpoint, processed_urls,
                                    all_listings, failed_urls)
    /\ output' = WriteOutput(all_listings, output)
    /\ exit_status' = MainExit("SystemExit")
    /\ frame' = pc
    /\ pc' = "exited"
    /\ fetch' = NoFetches
    /\ semaphore' = max_concurrent
    /\ detailed_listing' = NoRecord
    /\ htmls' = << >>
    /\ stopped_at' = 0
    /\ detail_issued' = {}
    /\ out_of_order' = FALSE
    /\ UNCHANGED <<cfgVars, mergeVars, pureVars, all_listings, failed_urls,
                   processed_urls, shutdown_requested, all_listing_cards, i, run, failures>>

\* _signal_handler: SIGINT or SIGTERM is delivered between two steps of the
\* process; the handler sets the flag, saves and ends the process with
\* sys.exit, which ends every coroutine of the crawl with it.
Signal(outcome) ==
    /\ Alive
    /\ CountWrite(outcome, write_failures) <= MaxWriteFailures
    /\ write_failures' = CountWrite(outcome, write_failures)
    /\ shutdown_requested' = TRUE
    /\ checkpoint' = SaveCheckpoint(outcome, checkpoint, processed_urls,
                                    all_listings, failed_urls)
    /\ output' = WriteOutput(all_listings, output)
    /\ exit_status' = MainExit("SystemExit")
    /\ frame' = pc
    /\ pc' = "exited"
    /\ fetch' = NoFetches
    /\ semaphore' = max_concurrent
    /\ detailed_listing' = NoRecord
    /\ htmls' = << >>
    /\ stopped_at' = 0
    /\ detail_issued' = {}
    /\ out_of_order' = FALSE
    /\ UNCHANGED <<cfgVars, mergeVars, pureVars, all_listings, failed_urls,
                   processed_urls, all_listing_cards, i, run, failures>>

\* scrape_all_pages lines 565-570 and main lines 669-671: an exception
\* escapes the body of scrape_all_pages, at the set-up before the dispatch
\* or in the code after the join; the handler saves what there is and
\* raises again, and main ends the process.
CriticalError(outcome) ==
    /\ \/ pc = "start"
       \/ pc = "gather" /\ \A p \in Pages : fetch[p].pc = "done"
    /\ CountWrite(outcome, write_failures) <= MaxWriteFailures
    /\ write_failures' = CountWrite(outcome, write_failures)
    /\ checkpoint' = SaveCheckpoint(outcome, checkpoint, processed_urls,
                                    all_listings, failed_urls)
    /\ output' = WriteOutput(all_listings, output)
    /\ exit_status' = MainExit("Exception")
    /\ pc' = "crashed"
    /\ fetch' = NoFetches
    /\ semaphore' = max_concurrent
    /\ out_of_order' = FALSE
    /\ UNCHANGED <<cfgVars, mergeVars, pureVars, frame, all_listings, failed_urls,
                   processed_urls, shutdown_requested, all_listing_cards, i,
                   detailed_listing, htmls, stopped_at, detail_issued, run,
                   failures>>

\* Variant of Restart that does not load the Records of the checkpoint.
RestartWithoutListings ==
    /\ ~Alive
    /\ run < MaxRuns
    /\ run' = run + 1
    /\ LET load == resume /\ checkpoint.exists /\ Readable(checkpoint)
       IN /\ processed_urls' = IF load THEN checkpoint.processed_urls ELSE {}
          /\ all_listings' = << >>
          /\ failed_urls' = IF load THEN checkpoint.failed_urls ELSE << >>
    /\ semaphore' = max_concurrent
    /\ shutdown_requested' = FALSE
    /\ pc' = "start"
    /\ fetch' = NoFetches
    /\ all_listing_cards' = << >>
    /\ i' = 0
    /\ detailed_listing' = NoRecord
    /\ htmls' = << >>
    /\ stopped_at' = 0
    /\ detail_issued' = {}
    /\ output' = << >>
    /\ frame' = "none"
    /\ out_of_order' = FALSE
    /\ exit_status' = NotExited
    /\ UNCHANGED <<cfgVars, mergeVars, pureVars, checkpoint, failures, write_failures>>

\* A new process is started after the previous one has ended:
\* AratapScraper.__init__ with _load_checkpoint when resume is set.
Restart ==
    /\ ~Alive
    /\ run < MaxRuns
    /\ run' = run + 1
    /\ LET load == resume /\ checkpoint.exists /\ Readable(checkpoint)
       IN /\ processed_urls' = IF load THEN checkpoint.processed_urls ELSE {}
          /\ all_listings' = IF load THEN checkpoint.listings ELSE << >>
          /\ failed_urls' = IF load THEN checkpoint.failed_urls ELSE << >>
    /\ semaphore' = max_concurrent
    /\ shutdown_requested' = FALSE
    /\ pc' = "start"
    /\ fetch' = NoFetches
    /\ all_listing_cards' = << >>
    /\ i' = 0
    /\ detailed_listing' = NoRecord
    /\ htmls' = << >>
    /\ stopped_at' = 0
    /\ detail_issued' = {}
    /\ output' = << >>
    /\ frame' = "none"
    /\ out_of_order' = FALSE
    /\ exit_status' = NotExited
    /\ UNCHANGED <<cfgVars, mergeVars, pureVars, checkpoint, failures, write_failures>>

Next ==
    \/ Dispatch
    \/ \E t \in DOMAIN fetch : Acquire(t)
    \/ \E t \in DOMAIN fetch, body \in OkBodies : NetOk(t, body)
    \/ \E t \in DOMAIN fetch, kind \in FailKinds : NetFail(t, kind)
    \/ \E t \in DOMAIN fetch : SleepDone(t)
    \/ \E outcome \in WriteOutcomes : ParseJoin(outcome)
    \/ DetailMerge
    \/ \E autosave, outcome \in WriteOutcomes : AppendListing(autosave, outcome)
    \/ \E outcome \in WriteOutcomes : Signal(outcome)
    \/ \E outcome \in WriteOutcomes : CriticalError(outcome)
    \/ Restart

Spec == Init /\ [][Next]_vars

\* ------------------------------------------------- the merge on its own
\* fetch_listing_details lines 424-429 for every pair of a summary dict and
\* a detail dict; the crawl itself stands still.
InitMerge ==
    /\ max_concurrent = 1
    /\ max_retries = 0
    /\ auto_save_interval = 1
    /\ fetch_details = TRUE
    /\ resume = FALSE
    /\ site = SiteGap
    /\ all_listings = << >>
    /\ failed_urls = << >>
    /\ processed_urls = {}
    /\ semaphore = max_concurrent
    /\ shutdown_requested = FALSE
    /\ checkpoint = NoCheckpoint
    /\ pc = "detail_fetch"
    /\ fetch = NoFetches
    /\ all_listing_cards = << >>
    /\ i = 0
    /\ detailed_listing = NoRecord
    /\ htmls = << >>
    /\ stopped_at = 0
    /\ detail_issued = {}
    /\ run = 1
    /\ failures = 0
    /\ output = << >>
    /\ frame = "none"
    /\ listing_dict \in Dicts
    /\ details_dict \in Dicts
    /\ merged_dict = NoValue
    /\ out_of_order = FALSE
    /\ write_failures = 0
    /\ exit_status = NotExited
    /\ PureIdle

MergeDetails ==
    /\ merged_dict = NoValue
    /\ merged_dict' = <<MergeDict(listing_dict, details_dict)>>
    /\ UNCHANGED <<cfgVars, all_listings, failed_urls, processed_urls,
                   semaphore, shutdown_requested, checkpoint, pc, fetch,
                   all_listing_cards, i, detailed_listing, htmls, stopped_at,
                   detail_issued, run, failures, output, frame, listing_dict,
                   details_dict, out_of_order, write_failures,
                   exit_status, pureVars>>

NextMerge == MergeDetails

SpecMerge == InitMerge /\ [][NextMerge]_vars

\* ------------------------------------------- single routines on their own
\* The crawl at rest: the state of the variables that the specifications
\* of single routines below do not use.
IdleCrawl ==
    /\ max_concurrent = 1
    /\ max_retries = 0
    /\ auto_save_interval = 1
    /\ fetch_details = TRUE
    /\ site = SiteGap
    /\ semaphore = max_concurrent
    /\ shutdown_requested = FALSE
    /\ checkpoint = NoCheckpoint
    /\ pc = "start"
    /\ fetch = NoFetches
    /\ all_listing_cards = << >>
    /\ i = 0
    /\ detailed_listing = NoRecord
    /\ htmls = << >>
    /\ stopped_at = 0
    /\ detail_issued = {}
    /\ failures = 0
    /\ output = << >>
    /\ frame = "none"
    /\ listing_dict = << >>
    /\ details_dict = << >>
    /\ merged_dict = NoValue
    /\ out_of_order = FALSE
    /\ write_failures = 0
    /\ exit_status = NotExited
idleVars == <<max_concurrent, max_retries, auto_save_interval, fetch_details,
              site, semaphore, shutdown_requested, checkpoint, pc, fetch,
              all_listing_cards, i, detailed_listing, htmls, stopped_at,
              detail_issued, failures, output, frame, mergeVars, out_of_order,
              write_failures, exit_status>>

\* All sequences over S of length at most n.
BoundedSeq(S, n) == UNION {[1..k -> S] : k \in 0..n}

\* ---- _save_checkpoint and _load_checkpoint
\* `list(self.processed_urls)`: the elements of the set in some order.
RECURSIVE ListOf(_)
ListOf(S) ==
    IF S = {} THEN << >>
    ELSE LET x == CHOOSE x \in S : TRUE
         IN <<x>> \o ListOf(S \ {x})

\* _save_checkpoint: the JSON document written by json.dump.  Records are
\* dicts of strings and integers and the URL lists are lists of strings,
\* which JSON keeps as they are; the set is written as a list.
DumpCheckpoint(processed, listings, failed) ==
    [exists |-> TRUE, processed_urls |-> ListOf(processed),
     listings |-> listings, failed_urls |-> failed]

\* A file that open() has truncated and json.dump has not completed.
PartialFile == [exists |-> TRUE, partial |-> TRUE]

\* Variant of LoadCheckpoint that loads whether or not resume is set.
LoadCheckpointIgnoresResume(res, file) ==
    IF file.exists
    THEN IF Readable(file)
         THEN [processed_urls |-> Range(file.processed_urls),
               all_listings |-> file.listings,
               failed_urls |-> file.failed_urls, error |-> FALSE]
         ELSE [processed_urls |-> {}, all_listings |-> << >>,
               failed_urls |-> << >>, error |-> TRUE]
    ELSE [processed_urls |-> {}, all_listings |-> << >>,
          failed_urls |-> << >>, error |-> FALSE]

\* __init__ lines 78-93 with _load_checkpoint: the collections start empty;
\* with resume set and the file present json.load reads the document and
\* `set(...)` turns the URL list into the ProcessedSet; an exception is
\* logged and leaves the collections empty.
LoadCheckpoint(res, file) ==
    IF res /\ file.exists
    THEN IF Readable(file)
         THEN [processed_urls |-> Range(file.processed_urls),
               all_listings |-> file.listings,
               failed_urls |-> file.failed_urls, error |-> FALSE]
         ELSE [processed_urls |-> {}, all_listings |-> << >>,
               failed_urls |-> << >>, error |-> TRUE]
    ELSE [processed_urls |-> {}, all_listings |-> << >>,
          failed_urls |-> << >>, error |-> FALSE]

ItemUrls == {ItemA, ItemB}
RecordKinds == [url : ItemUrls, merged : BOOLEAN]

InitCheckpoint ==
    /\ IdleCrawl
    /\ resume \in BOOLEAN
    /\ run = 1
    /\ processed_urls \in SUBSET ItemUrls
    /\ all_listings \in BoundedSeq(RecordKinds, MaxRecords)
    /\ failed_urls \in BoundedSeq(ItemUrls, MaxFailures)
    /\ PureIdle

\* _save_checkpoint is called and the write succeeds or leaves a partial
\* file.
SaveFile(outcome) ==
    /\ outcome \in {"saved", "partial"}
    /\ checkpoint_file' = IF outcome = "saved"
                          THEN DumpCheckpoint(processed_urls, all_listings,
                                              failed_urls)
                          ELSE PartialFile
    /\ saved' = IF outcome = "saved"
                THEN <<processed_urls, all_listings, failed_urls>>
                ELSE saved
    /\ UNCHANGED <<idleVars, resume, run, processed_urls, all_listings,
                   failed_urls, load_error, csvVars, detectVars>>

\* The crawl goes on after a save: one more URL fails.
MoreWork(url) ==
    /\ checkpoint_file.exists
    /\ Len(failed_urls) < MaxFailures
    /\ failed_urls' = Append(failed_urls, url)
    /\ UNCHANGED <<idleVars, resume, run, processed_urls, all_listings,
                   pureVars>>

\* The process ends and a new one is constructed.
NewProcess ==
    /\ run < MaxRuns
    /\ run' = run + 1
    /\ LET l == LoadCheckpoint(resume, checkpoint_file)
       IN /\ processed_urls' = l.processed_urls
          /\ all_listings' = l.all_listings
          /\ failed_urls' = l.failed_urls
          /\ load_error' = l.error
    /\ UNCHANGED <<idleVars, resume, checkpoint_file, saved, csvVars,
                   detectVars>>

NextCheckpoint ==
    \/ \E outcome \in WriteOutcomes : SaveFile(outcome)
    \/ \E url \in ItemUrls : MoreWork(url)
    \/ NewProcess

SpecCheckpoint == InitCheckpoint /\ [][NextCheckpoint]_vars

\* ---- save_to_csv
\* Field names are strings, written here as the sequences of their code
\* points, the order in which `sorted` compares them.
title == <<116, 105, 116, 108, 101>>
price == <<112, 114, 105, 99, 101>>
url == <<117, 114, 108>>
agent == <<97, 103, 101, 110, 116>>
age == <<97, 103, 101>>
Zone == <<90, 111, 110, 101>>

\* Lines 590-596, cut down to three of its names in their order there.
priority_fields == <<title, price, url>>
CsvFields == {title, price, url, agent, age, Zone}

\* Python's `<` on str.
RECURSIVE LexLess(_, _)
LexLess(a, b) ==
    IF a = << >> THEN b # << >>
    ELSE IF b = << >> THEN FALSE
    ELSE IF Head(a) = Head(b) THEN LexLess(Tail(a), Tail(b))
    ELSE Head(a) < Head(b)

\* `sorted(fieldnames)`.
RECURSIVE sorted(_)
sorted(S) ==
    IF S = {} THEN << >>
    ELSE LET least == CHOOSE x \in S : \A y \in S \ {x} : LexLess(x, y)
         IN <<least>> \o sorted(S \ {least})

\* Lines 585-587: the union of the keys of the dicts.
fieldnames(listings) == UNION {DOMAIN listings[k] : k \in DOMAIN listings}

\* Variant of ordered_fields that sorts all names.
OrderedFieldsAllSorted(listings) == sorted(fieldnames(listings))

\* Lines 599-604: the priority fields that occur, in the order of the
\* list and removed from the set, then the remaining names sorted.
ordered_fields(listings) ==
    LET first == SelectSeq(priority_fields,
                           LAMBDA field : field \in fieldnames(listings))
    IN first \o sorted(fieldnames(listings) \ Range(first))

\* The file DictWriter writes: the header row and one row per dict.
CsvOf(listings) ==
    [exists |-> TRUE, header |-> ordered_fields(listings), rows |-> listings]

\* The file json.dump writes in the except block.
BackupOf(listings) == [exists |-> TRUE, rows |-> listings]

WriteFile(outcome, old, new) ==
    CASE outcome = "saved" -> new
      [] outcome = "unchanged" -> old
      [] outcome = "partial" -> PartialFile

\* Variant of SaveResult that returns a path once the backup is written.
SaveResultBackupPath(csv, backup) ==
    IF csv = "saved" \/ backup = "saved" THEN "filename" ELSE "None"

\* Lines 612 and 623: the file name after the CSV is written, None from
\* the except block.
SaveResult(csv, backup) == IF csv = "saved" THEN "filename" ELSE "None"

Dicts6 == UNION {[K -> {"v"}] : K \in SUBSET CsvFields}

InitCsv ==
    /\ IdleCrawl
    /\ resume = FALSE
    /\ run = 1
    /\ processed_urls = {}
    /\ failed_urls = << >>
    /\ all_listings \in BoundedSeq(Dicts6, MaxRecords)
    /\ PureIdle

\* save_to_csv: one call; csv and backup are what becomes of the two
\* writes.
SaveToCsv(csv, backup) ==
    /\ IF all_listings = << >>
       THEN /\ csv = "saved" /\ backup = "saved"
            /\ returned' = "None"
            /\ writes' = << >>
            /\ UNCHANGED <<csv_file, backup_file, first_csv>>
       ELSE /\ csv_file' = WriteFile(csv, csv_file, CsvOf(all_listings))
            /\ IF WriteFailed(csv)
               THEN /\ backup_file' = WriteFile(backup, backup_file,
                                                BackupOf(all_listings))
                    /\ writes' = <<<<"csv", csv>>, <<"backup", backup>>>>
                    /\ UNCHANGED first_csv
               ELSE /\ backup = "saved"
                    /\ writes' = <<<<"csv", csv>>>>
                    /\ first_csv' = IF first_csv = NoFile
                                    THEN CsvOf(all_listings)
                                    ELSE first_csv
                    /\ UNCHANGED backup_file
            /\ returned' = SaveResult(csv, backup)
    /\ UNCHANGED <<idleVars, resume, run, processed_urls, failed_urls,
                   all_listings, ckptVars, detectVars>>

\* The caller has taken the result; the same records arrive in another
\* order.
Reorder(a, b) ==
    /\ a \in DOMAIN all_listings
    /\ b \in DOMAIN all_listings
    /\ a < b
    /\ all_listings' = [all_listings EXCEPT ![a] = all_listings[b],
                                            ![b] = all_listings[a]]
    /\ returned' = "pending"
    /\ writes' = << >>
    /\ UNCHANGED <<idleVars, resume, run, processed_urls, failed_urls,
                   csv_file, backup_file, first_csv, ckptVars, detectVars>>

NextCsv ==
    \/ \E csv, backup \in WriteOutcomes : SaveToCsv(csv, backup)
    \/ \E a, b \in 1..(MaxRecords + 1) : Reorder(a, b)

SpecCsv == InitCsv /\ [][NextCsv]_vars

\* ---- detect_last_page
\* Line 474: the value returned when no last page was detected.
FallbackLastPage == 100

Max2(a, b) == IF a > b THEN a ELSE b

\* A link of the navigation block: `text` is the set holding int(text)
\* when text.isdigit(), `href` the set holding the N of /page/N/ when the
\* target has one; either set is empty otherwise.
NoNumber == {}
PageNumbers == {NoNumber} \cup {{n} : n \in 0..MaxPageNo}
Links == [text : PageNumbers, href : PageNumbers]

\* Lines 454-464: the loop over page_links, max_page starting at 1.
RECURSIVE MaxPageFrom(_, _)
MaxPageFrom(page_links, max_page) ==
    IF page_links = << >> THEN max_page
    ELSE LET link == Head(page_links)
             after_text == IF link.text # NoNumber
                           THEN Max2(max_page,
                                     CHOOSE n \in link.text : TRUE)
                           ELSE max_page
             after_href == IF link.href # NoNumber
                           THEN Max2(after_text,
                                     CHOOSE n \in link.href : TRUE)
                           ELSE after_text
         IN MaxPageFrom(Tail(page_links), after_href)

\* detect_last_page, lines 442-474, on what the fetch of page 1 gave.
detect_last_page(page) ==
    IF page.fetched /\ page.html # "" /\ page.pagination
    THEN LET max_page == MaxPageFrom(page.page_links, 1)
         IN IF max_page > 1 THEN max_page ELSE FallbackLastPage
    ELSE FallbackLastPage

EmptyBody ==
    [fetched |-> TRUE, html |-> "", pagination |-> FALSE,
     page_links |-> << >>]
FirstPages ==
    {FetchFailed, EmptyBody}
    \cup [fetched : {TRUE}, html : {"page"}, pagination : {FALSE},
          page_links : {<< >>}]
    \cup [fetched : {TRUE}, html : {"page"}, pagination : {TRUE},
          page_links : BoundedSeq(Links, MaxLinks)]

InitDetect ==
    /\ IdleCrawl
    /\ resume = FALSE
    /\ run = 1
    /\ processed_urls = {}
    /\ failed_urls = << >>
    /\ all_listings = << >>
    /\ CheckpointIdle
    /\ CsvIdle
    /\ page1 \in FirstPages
    /\ detected = NotDetected

\* scrape_all_pages line 485: the call with end_page None.
DetectLastPage ==
    /\ detected = NotDetected
    /\ detected' = detect_last_page(page1)
    /\ UNCHANGED <<idleVars, resume, run, processed_urls, failed_urls,
                   all_listings, ckptVars, csvVars, page1>>

NextDetect == DetectLastPage

SpecDetect == InitDetect /\ [][NextDetect]_vars

TypeOK ==
    /\ semaphore \in 0..max_concurrent
    /\ pc \in {"start", "gather", "detail_fetch", "append", "finished",
               "exited", "crashed"}
    /\ run \in 1..MaxRuns

\* ------------------------------------------------------------------ claims
FetchIds == DOMAIN fetch
InFlight == {t \in FetchIds : fetch[t].pc = "net"}
Urls(listings) == {listings[k].url : k \in DOMAIN listings}

\* C1: at every checkpoint save, every URL of the saved ProcessedSet is the
\* url of some Record of the saved accumulation set.
C1_CheckpointProcessedHaveRecords ==
    checkpoint.exists =>
        checkpoint.processed_urls \subseteq Urls(checkpoint.listings)

\* C2: forward progress: no state is reachable in which every permit is held
\* by a fetch that is itself waiting for a permit.
PermitWaitDeadlock ==
    /\ Alive
    /\ semaphore = 0
    /\ \A t \in FetchIds : fetch[t].held > 0 => fetch[t].pc = "wait"
C2_NoPermitWaitDeadlock == ~PermitWaitDeadlock

\* C3: a fetch call that returns Failure without a shutdown request has made
\* exactly max_retries + 1 network attempts, and no fetch call ever makes
\* more than that.
C3_ExactlyNPlusOneAttempts ==
    \A t \in FetchIds :
        /\ fetch[t].attempts <= max_retries + 1
        /\ (fetch[t].pc = "done" /\ fetch[t].result = "None"
            /\ ~shutdown_requested)
           => fetch[t].attempts = max_retries + 1
C3_Witness ==
    \E t \in FetchIds :
        /\ max_retries >= 1
        /\ fetch[t].pc = "done"
        /\ fetch[t].result = "None"
        /\ fetch[t].attempts = max_retries + 1

\* C4: a fetch that has used up its retries has recorded its URL in
\* FailedSet by the time it returns Failure, whatever the failure kind and
\* whether the URL is an index page or a detail page.
C4_ExhaustedFetchRecorded ==
    \A t \in FetchIds :
        (fetch[t].pc = "done" /\ fetch[t].result = "None"
         /\ ~shutdown_requested)
        => fetch[t].url \in Range(failed_urls)

\* C5: within one fetch the k-th backoff sleep lasts 2^(k-1) time units, the
\* delays never decrease, and no sleep follows the last failed attempt.
C5_BackoffSchedule ==
    \A t \in FetchIds :
        LET d == fetch[t].delays
        IN /\ \A k \in DOMAIN d : d[k] = Pow2(k - 1)
           /\ \A k \in DOMAIN d : k > 1 => d[k - 1] <= d[k]
           /\ Len(d) <= max_retries
           /\ fetch[t].pc \in {"wait", "net", "done"}
              => Len(d) = fetch[t].retry_count
           /\ (fetch[t].pc = "done" /\ fetch[t].result = "None"
               /\ ~shutdown_requested)
              => Len(d) = fetch[t].attempts - 1
C5_Witness ==
    \E t \in FetchIds : fetch[t].delays = <<1, 2>> /\ fetch[t].pc = "sleep"

\* C6: while a detail fetch is under way, from the step that issues it on,
\* its URL is not in ProcessedSet, be it loaded from the checkpoint or
\* added earlier in the same run.
C6_NoDetailFetchOfProcessed ==
    pc = "detail_fetch" => fetch[DetailId].url \notin processed_urls
C6_Witness ==
    /\ run > 1
    /\ processed_urls # {}
    /\ pc = "detail_fetch"
    /\ fetch[DetailId].url \notin processed_urls

\* C7: the index-exhausted stop fires only for a successfully fetched page
\* whose extractor output is empty, so a crawl with detail fetching that
\* completes has issued a detail fetch for every URL not in ProcessedSet
\* that is listed on a successfully fetched page before the first such page.
FirstEmptyPage ==
    LET empties == {q \in Pages : /\ q > start_page
                                  /\ htmls[q] = "html"
                                  /\ site[q] = << >>}
    IN IF empties = {} THEN end_page + 1
       ELSE CHOOSE q \in empties : \A r \in empties : q <= r
C7_CoverageOnResume ==
    /\ stopped_at # 0 => site[stopped_at] = << >>
    /\ (pc = "finished" /\ fetch_details /\ htmls # << >>)
       => \A p \in Pages :
            (htmls[p] = "html" /\ p < FirstEmptyPage)
            => \A u \in Range(site[p]) :
                 u \in processed_urls \/ u \in detail_issued

\* C8: no two Records of the accumulation set have the same url.
C8_RecordUrlsUnique ==
    \A j, k \in DOMAIN all_listings :
        j # k => all_listings[j].url # all_listings[k].url

\* C9: at every instant at most max_concurrent network calls are
\* outstanding in the whole process.
C9_AtMostMaxConcurrentInFlight == Cardinality(InFlight) <= max_concurrent
C9_Witness ==
    /\ max_concurrent > 1
    /\ Cardinality(InFlight) = max_concurrent
    /\ \E t \in FetchIds : fetch[t].pc = "wait"

\* C10: a fetch of one URL never holds more than one permit at a time, and
\* whenever no fetch is active all max_concurrent permits are free.
C10_OnePermitPerFetch ==
    /\ \A t \in FetchIds : fetch[t].held <= 1
    /\ (\A t \in FetchIds : fetch[t].pc \in {"idle", "done"})
       => semaphore = max_concurrent

\* C11: once shutdown has been requested no new network call is started,
\* every fetch that has not begun its network call returns Failure without
\* one, and the network calls in flight are not aborted.
C11_CooperativeCancellation ==
    [][shutdown_requested' =>
        \A t \in FetchIds :
            /\ fetch'[t].attempts <= fetch[t].attempts
            /\ fetch[t].pc = "net" => fetch'[t].pc \in {"net", "sleep", "done"}
            /\ fetch[t].pc \in {"wait", "sleep"}
               => \/ fetch'[t].pc = fetch[t].pc
                  \/ fetch'[t].pc = "done" /\ fetch'[t].result = "None"]_vars

\* C12: the cancellation flag has two values, it is set by a termination
\* request and by nothing else, and once set it stays set for the rest of
\* the process.
C12_ShutdownFlagOnlyRises ==
    /\ [](shutdown_requested \in BOOLEAN)
    /\ [][/\ (shutdown_requested /\ run' = run) => shutdown_requested'
          /\ (~shutdown_requested /\ shutdown_requested')
             => (Alive /\ pc' = "exited")
          /\ (Alive /\ pc' = "exited") => shutdown_requested']_vars
C12_Witness == shutdown_requested /\ pc = "exited" /\ frame = "gather"

\* C13: a termination request sets the flag, writes a checkpoint with the
\* ProcessedSet, Records and FailedSet held in memory at that instant,
\* flushes the output with the same Records and ends the process, and the
\* in-memory state does not change on the way.
C13_SignalSavesCurrentState ==
    [][(Alive /\ pc' = "exited") =>
        /\ shutdown_requested'
        /\ write_failures' = write_failures
           => /\ checkpoint'.exists
              /\ checkpoint'.processed_urls = processed_urls
              /\ checkpoint'.listings = all_listings
              /\ checkpoint'.failed_urls = failed_urls
        /\ all_listings # << >> => output' = all_listings
        /\ all_listings' = all_listings
        /\ processed_urls' = processed_urls
        /\ failed_urls' = failed_urls]_vars
C13_Witness ==
    /\ pc = "exited"
    /\ frame = "detail_fetch"
    /\ processed_urls # {}
    /\ failed_urls # << >>
    /\ checkpoint.listings = all_listings
    /\ checkpoint.failed_urls = failed_urls
    /\ output = all_listings
    /\ all_listings # << >>

\* C14: in a run started from scratch, a termination request that arrives
\* during the detail fetch of the k-th summary, all earlier detail fetches
\* having succeeded, leaves a checkpoint whose ProcessedSet is exactly the
\* URLs of the first k-1 summaries, each with its merged Record, and the
\* process has ended.
EarlierUrls == {all_listing_cards[j].url : j \in 1..(i - 1)}
JoinStep == pc = "gather" /\ pc' \in {"detail_fetch", "finished"}

\* The pages after the first whose fetch returned a body and whose parse
\* yields no summary, given the results h and the ProcessedSet.
ZeroPages(h, processed) ==
    {q \in Pages : /\ q > start_page
                   /\ h[q] = "html"
                   /\ Range(site[q]) \subseteq processed}
FirstZeroPage(h, processed) ==
    IF ZeroPages(h, processed) = {} THEN end_page + 1
    ELSE CHOOSE q \in ZeroPages(h, processed) :
             \A r \in ZeroPages(h, processed) : q <= r

\* The summaries of the pages start_page..p that returned a body, without
\* those of the ProcessedSet, in page order.
RECURSIVE CardsUpTo(_, _, _)
CardsUpTo(p, h, processed) ==
    IF p < start_page THEN << >>
    ELSE CardsUpTo(p - 1, h, processed)
         \o (IF h[p] = "html"
             THEN [k \in 1..Len(SelectSeq(site[p], LAMBDA u : u \notin processed))
                   |-> [url |-> SelectSeq(site[p],
                                          LAMBDA u : u \notin processed)[k],
                        merged |-> FALSE]]
             ELSE << >>)

C16_ResultsPastGapKept ==
    [][JoinStep =>
        \A p \in Pages :
            htmls'[p] = "html"
            => \A u \in Range(site[p]) :
                 u \in processed_urls \/ u \in Urls(all_listing_cards')]_vars

\* C16 amended: every page of the range is fetched before any is parsed,
\* also the pages beyond the gap; the parse stops at the first page after
\* the first that returned a body and yields zero summaries, and the
\* results of all later pages are dropped.
C16_ResultsPastGapDropped ==
    [][(JoinStep /\ ~shutdown_requested) =>
        LET q == FirstZeroPage(htmls', processed_urls)
        IN /\ \A p \in Pages : fetch[p].pc = "done" /\ fetch[p].attempts >= 1
           /\ stopped_at' = IF q > end_page THEN 0 ELSE q
           /\ all_listing_cards' = CardsUpTo(q - 1, htmls', processed_urls)]_vars
C16_Witness ==
    /\ site = SiteGap
    /\ htmls # << >>
    /\ \A p \in Pages : htmls[p] = "html"
    /\ stopped_at = 2
    /\ Urls(all_listing_cards) = {ItemA}
    /\ ItemB \notin detail_issued

\* The URLs of the index pages.
PageUrls == {get_page_url(p) : p \in Pages}

\* A resumed run at the join whose pages show only items of the ProcessedSet.
OnlyProcessedDiscovered ==
    /\ JoinStep
    /\ run > 1
    /\ resume
    /\ checkpoint.exists
    /\ processed_urls # {}
    /\ \A p \in Pages :
         fetch[p].result = "html" => Range(site[p]) \subseteq processed_urls

\* C17 as stated: a run that loads a checkpoint and discovers only URLs of
\* the ProcessedSet leaves the accumulation set, the ProcessedSet and the
\* FailedSet exactly as loaded and makes no detail fetch.
C17_ResumeLeavesAllAsLoaded ==
    [][OnlyProcessedDiscovered =>
        /\ all_listings' = checkpoint.listings
        /\ processed_urls' = checkpoint.processed_urls
        /\ failed_urls' = checkpoint.failed_urls
        /\ detail_issued' = {}
        /\ pc' = "finished"]_vars

\* C17 amended: such a run leaves the accumulation set and the ProcessedSet
\* exactly as loaded and makes no detail fetch; the FailedSet keeps the
\* loaded entries and grows only by the URLs of index pages whose fetch
\* failed; the final save writes that state.
C17_ResumeLeavesRecordsAsLoaded ==
    [][OnlyProcessedDiscovered =>
        /\ all_listings' = checkpoint.listings
        /\ processed_urls' = checkpoint.processed_urls
        /\ Len(failed_urls') >= Len(checkpoint.failed_urls)
        /\ SubSeq(failed_urls', 1, Len(checkpoint.failed_urls))
              = checkpoint.failed_urls
        /\ \A k \in (Len(checkpoint.failed_urls) + 1)..Len(failed_urls') :
              failed_urls'[k] \in PageUrls
        /\ detail_issued' = {}
        /\ pc' = "finished"
        /\ write_failures' = write_failures
           => /\ checkpoint'.listings = checkpoint.listings
              /\ checkpoint'.processed_urls = checkpoint.processed_urls]_vars
C17_Witness ==
    /\ pc = "finished"
    /\ run > 1
    /\ resume
    /\ fetch_details
    /\ processed_urls = {ItemA}
    /\ all_listing_cards = << >>
    /\ detail_issued = {}
    /\ \E p \in Pages : htmls[p] = "html" /\ site[p] # << >>
    /\ \A p \in Pages : htmls[p] = "html" => Range(site[p]) \subseteq {ItemA}
    /\ all_listings = <<[url |-> ItemA, merged |-> TRUE]>>
    /\ checkpoint.listings = all_listings
    /\ \E k \in DOMAIN failed_urls : failed_urls[k] \in PageUrls

C20_FewerThanKUnsaved ==
    /\ (Alive /\ (run = 1 \/ resume))
       => Len(all_listings) - Len(checkpoint.listings) < auto_save_interval
    /\ ~Alive
       => checkpoint = [exists |-> TRUE, processed_urls |-> processed_urls,
                        listings |-> all_listings,
                        failed_urls |-> failed_urls]

\* C19: for every summary dict s and detail dict d, the merged Record has
\* exactly the keys of s united with the keys of d, every key of d maps to
\* d's value and every key of s alone keeps s's value.
C19_MergeDetailWins ==
    merged_dict # NoValue =>
        LET m == merged_dict[1]
        IN /\ DOMAIN m = DOMAIN listing_dict \cup DOMAIN details_dict
           /\ \A k \in DOMAIN details_dict : m[k] = details_dict[k]
           /\ \A k \in DOMAIN listing_dict \ DOMAIN details_dict : m[k] = listing_dict[k]
C19_Witness ==
    /\ merged_dict # NoValue
    /\ \E k \in DOMAIN listing_dict \cap DOMAIN details_dict :
         /\ listing_dict[k] # details_dict[k]
         /\ merged_dict[1][k] = details_dict[k]
    /\ \E k \in DOMAIN listing_dict \ DOMAIN details_dict : merged_dict[1][k] = listing_dict[k]

\* A step taken while the index-page fetches run under gather.
GatherStep == pc = "gather" /\ pc' = "gather"

\* C27 as stated: no step taken inside a concurrently running index-page
\* fetch modifies ProcessedSet, the accumulation set or FailedSet.
C27_FetchesMutateNothing ==
    [][GatherStep =>
        /\ processed_urls' = processed_urls
        /\ all_listings' = all_listings
        /\ failed_urls' = failed_urls]_vars

\* C27 amended: ProcessedSet and the accumulation set are mutated only by
\* the path driving the crawl, after the join; FailedSet is also appended
\* to inside a running index-page fetch, by the fetch that returns Failure
\* and with its own URL, one fetch at a time.
C27_FetchesMutateOnlyFailedSet ==
    [][GatherStep =>
        /\ processed_urls' = processed_urls
        /\ all_listings' = all_listings
        /\ \/ failed_urls' = failed_urls
           \/ \E p \in Pages :
                /\ failed_urls' = Append(failed_urls, get_page_url(p))
                /\ fetch[p].pc = "net"
                /\ fetch'[p].pc = "done"
                /\ fetch'[p].result = "None"
                /\ \A q \in Pages \ {p} : fetch'[q] = fetch[q]]_vars
C27_Witness ==
    /\ pc = "gather"
    /\ run = 1
    /\ \E p, q \in Pages :
         /\ fetch[p].pc = "done"
         /\ get_page_url(p) \in Range(failed_urls)
         /\ fetch[q].pc \in {"net", "wait"}

\* C28: ProcessedSet and the accumulation set are always mutated together:
\* within a process every step that appends a Record also adds its url to
\* ProcessedSet and every step that adds a URL to ProcessedSet also appends
\* its Record, so no state in between can be observed.
C28_LedgerAndRecordsTogether ==
    [][run' = run =>
        /\ (all_listings' # all_listings) <=> (processed_urls' # processed_urls)
        /\ Len(all_listings') > Len(all_listings)
           => all_listings'[Len(all_listings')].url \in processed_urls']_vars

\* C29: with no shutdown request one fetch call per page of the range is
\* issued, all of them before any result is consumed, and the parse begins
\* only when every one of them has returned, also those of pages that lie
\* after an empty page.
C29_AllPagesDispatchedAndJoined ==
    /\ [](pc = "gather"
          => /\ htmls = << >>
             /\ all_listing_cards = << >>
             /\ \A p \in Pages : /\ fetch[p].pc # "idle"
                                 /\ fetch[p].url = get_page_url(p))
    /\ [][(pc = "start" /\ pc' = "gather")
          => \A p \in Pages : /\ fetch'[p].pc \in {"net", "wait"}
                              /\ fetch'[p].retry_count = 0
                              /\ fetch'[p].attempts <= 1]_vars
    /\ [][JoinStep
          => /\ \A p \in Pages : fetch[p].pc = "done"
             /\ DOMAIN htmls' = Pages
             /\ \A p \in Pages : htmls'[p] = fetch[p].result]_vars
C29_Witness ==
    /\ pc = "finished"
    /\ site = SiteGap
    /\ stopped_at = 2
    /\ htmls[1] = "html"
    /\ htmls[3] = "empty"

\* C30: whatever the order in which the index-page fetches complete, their
\* results are consumed in ascending page order: the summary list has the
\* items of page p before those of page q whenever p < q, and the page
\* that stops the crawl is the lowest page after the start page that
\* returned a body and yields no summary.
C30_ConsumedInPageOrder ==
    [][JoinStep =>
        /\ \A p \in Pages : htmls'[p] = fetch[p].result
        /\ all_listing_cards'
              = CardsUpTo(FirstZeroPage(htmls', processed_urls) - 1, htmls',
                          processed_urls)
        /\ stopped_at' # 0
           => /\ stopped_at' \in ZeroPages(htmls', processed_urls)
              /\ \A q \in ZeroPages(htmls', processed_urls) : stopped_at' <= q
        /\ stopped_at' = 0 => ZeroPages(htmls', processed_urls) = {}]_vars
C30_Witness ==
    /\ out_of_order
    /\ pc = "detail_fetch"
    /\ site = SiteSkip
    /\ htmls = <<"html", "html">>
    /\ all_listing_cards = [k \in 1..4 |->
                              [url |-> IF k <= 2 THEN ItemA ELSE ItemB,
                               merged |-> FALSE]]

\* C22: when an unexpected exception escapes the crawl loop, a checkpoint
\* save and an output save of the state accumulated so far are performed
\* before the exception propagates, the state in memory is not changed, and
\* the process exits with a non-zero status.
C22_EmergencySaveThenNonZeroExit ==
    /\ [][(Alive /\ pc' = "crashed") =>
            /\ write_failures' = write_failures
               => /\ checkpoint'.exists
                  /\ checkpoint'.processed_urls = processed_urls
                  /\ checkpoint'.listings = all_listings
                  /\ checkpoint'.failed_urls = failed_urls
            /\ write_failures' # write_failures
               => checkpoint' \in {checkpoint, PartialCheckpoint}
            /\ all_listings # << >> => output' = all_listings
            /\ all_listings' = all_listings
            /\ processed_urls' = processed_urls
            /\ failed_urls' = failed_urls
            /\ exit_status' # 0]_vars
    /\ [](pc = "crashed" => exit_status > 0)
    /\ [](pc \in {"finished", "exited"} => exit_status = 0)
C22_Witness ==
    /\ pc = "crashed"
    /\ exit_status = 1
    /\ run > 1
    /\ all_listings # << >>
    /\ output = all_listings
    /\ checkpoint.listings = all_listings
    /\ failed_urls # << >>
    /\ checkpoint.failed_urls = failed_urls

\* A step on which a checkpoint write failed.
WriteFailedStep == write_failures' > write_failures

\* The checkpoint file holds the state in memory after the step.
SavedAfterStep ==
    /\ checkpoint'.exists
    /\ Readable(checkpoint')
    /\ checkpoint'.processed_urls = processed_urls'
    /\ checkpoint'.listings = all_listings'
    /\ checkpoint'.failed_urls = failed_urls'

\* C23: a failed checkpoint write does not abort the run and leaves
\* ProcessedSet, the accumulation set and FailedSet in memory as they are;
\* the crawl goes on, and the saves due at the later intervals and at
\* completion are still attempted.
C23_FailedWriteDoesNotAbort ==
    /\ [][WriteFailedStep =>
            /\ processed_urls' = processed_urls
            /\ failed_urls' = failed_urls
            /\ \/ all_listings' = all_listings
               \/ pc = "append"
                  /\ all_listings' = Append(all_listings, detailed_listing)
               \/ pc = "gather" /\ ~fetch_details
                  /\ all_listings' = all_listings \o all_listing_cards'
            /\ \/ checkpoint' \in {checkpoint, PartialCheckpoint}
               \/ SavedAfterStep
            /\ (pc = "append" /\ pc' # "exited")
               => IF \E k \in (i + 1)..Len(all_listing_cards) :
                        all_listing_cards[k].url \notin processed_urls
                  THEN /\ pc' = "detail_fetch"
                       /\ fetch'[DetailId].pc \in {"net", "wait"}
                  ELSE pc' = "finished"]_vars
    /\ [][(pc = "append" /\ pc' = "detail_fetch"
           /\ i % auto_save_interval = 0)
          => (SavedAfterStep \/ WriteFailedStep)]_vars
    /\ [][(Alive /\ pc' = "finished")
          => (SavedAfterStep \/ WriteFailedStep)]_vars
C23_Witness ==
    /\ pc = "finished"
    /\ run = 1
    /\ write_failures > 0
    /\ auto_save_interval = 1
    /\ Len(all_listings) > 1
    /\ checkpoint.exists
    /\ Readable(checkpoint)
    /\ checkpoint.listings = all_listings
    /\ checkpoint.processed_urls = processed_urls

\* C21: with resume enabled a new process starts with exactly the
\* ProcessedSet, the Records and the FailedSet, order kept, of the most
\* recently saved checkpoint: save followed by load is the identity on the
\* three collections.  With resume disabled, or with no checkpoint file,
\* it starts with all three empty and logs no error.
C21_LoadRestoresLastSave ==
    [][run' = run + 1 =>
        /\ (resume /\ checkpoint_file.exists /\ Readable(checkpoint_file))
           => /\ <<processed_urls', all_listings', failed_urls'>> = saved
              /\ ~load_error'
        /\ (~resume \/ ~checkpoint_file.exists)
           => /\ processed_urls' = {}
              /\ all_listings' = << >>
              /\ failed_urls' = << >>
              /\ ~load_error']_vars
C21_Witness ==
    /\ run > 1
    /\ resume
    /\ saved = <<processed_urls, all_listings, failed_urls>>
    /\ processed_urls = ItemUrls
    /\ Len(all_listings) = 2
    /\ all_listings[1] # all_listings[2]
    /\ Len(failed_urls) = 2
    /\ failed_urls[1] # failed_urls[2]

\* C24: the header row contains every field name that occurs in the
\* records exactly once, the priority fields that occur first and in the
\* order of the priority list, the other fields after them in
\* lexicographic order; so it depends on the set of names only, and a
\* second write of the same records, in the same or another order, gives
\* the header of the first.
PriorityIndex(field) ==
    CHOOSE k \in DOMAIN priority_fields : priority_fields[k] = field
IsPriority(field) == field \in Range(priority_fields)
HeaderInOrder(h) ==
    \A a, b \in DOMAIN h :
        a < b => IF IsPriority(h[b])
                 THEN /\ IsPriority(h[a])
                      /\ PriorityIndex(h[a]) < PriorityIndex(h[b])
                 ELSE IsPriority(h[a]) \/ LexLess(h[a], h[b])
C24_HeaderFromFieldSet ==
    (csv_file.exists /\ Readable(csv_file))
    => /\ Range(csv_file.header) = fieldnames(csv_file.rows)
       /\ Len(csv_file.header) = Cardinality(fieldnames(csv_file.rows))
       /\ HeaderInOrder(csv_file.header)
       /\ csv_file.header = first_csv.header
C24_Witness ==
    /\ csv_file.exists /\ Readable(csv_file)
    /\ returned = "filename"
    /\ Len(all_listings) = 2
    /\ csv_file.rows = all_listings
    /\ first_csv.rows = <<all_listings[2], all_listings[1]>>
    /\ all_listings[1] # all_listings[2]
    /\ fieldnames(all_listings) = CsvFields
    /\ csv_file.header = <<title, price, url, Zone, age, agent>>

\* C25: when the write of the output file fails, the dump of the records
\* to the backup file is attempted, and the call returns None whether
\* that dump succeeds or not; it does not raise and leaves all_listings
\* as it was.
C25_FailedWriteFallsBack ==
    [][(writes' # << >> /\ WriteFailed(writes'[1][2]))
       => /\ Len(writes') = 2
          /\ writes'[2][1] = "backup"
          /\ (writes'[2][2] = "saved"
              => backup_file' = [exists |-> TRUE, rows |-> all_listings])
          /\ returned' = "None"
          /\ all_listings' = all_listings]_vars
C25_Witness ==
    /\ returned = "None"
    /\ Len(writes) = 2
    /\ writes[2][2] = "saved"
    /\ Len(all_listings) = 2
    /\ backup_file.exists /\ Readable(backup_file)
    /\ backup_file.rows = all_listings
    /\ ~csv_file.exists

\* C26: detect_last_page always returns a value; when page 1 is fetched
\* and the navigation block is present it returns the largest page number
\* among the link texts and the link targets, also when that is 1; it
\* returns the fallback only when the fetch fails or there is no
\* navigation block.
NumbersFound(page_links) ==
    UNION {page_links[k].text \cup page_links[k].href :
           k \in DOMAIN page_links}
NavigationSeen == page1.fetched /\ page1.html # "" /\ page1.pagination
C26_MaximumOrFallback ==
    detected # NotDetected
    => /\ (NavigationSeen /\ NumbersFound(page1.page_links) # {})
          => /\ detected \in NumbersFound(page1.page_links)
             /\ \A n \in NumbersFound(page1.page_links) : n <= detected
       /\ detected = FallbackLastPage => ~NavigationSeen
C26_SinglePageGivesFallback ==
    /\ NavigationSeen
    /\ NumbersFound(page1.page_links) = {1}
    /\ detected = FallbackLastPage

\* C31: when a resumed run enriches a URL whose unenriched Record an
\* earlier run has left in the accumulation set, the merged Record is
\* appended at the end and the unenriched one stays where it was: the
\* accumulation set then holds both Records of that URL.
Unenriched(u) == [url |-> u, merged |-> FALSE]
C31_ResumedEnrichmentAppendsAgain ==
    [][(/\ run > 1
        /\ resume
        /\ pc = "append"
        /\ pc' # "exited"
        /\ detailed_listing.merged
        /\ Unenriched(detailed_listing.url) \in Range(all_listings))
       => /\ all_listings' = Append(all_listings, detailed_listing)
          /\ Unenriched(detailed_listing.url) \in Range(all_listings')
          /\ detailed_listing \in Range(all_listings')]_vars
C31_Witness ==
    /\ run = 2
    /\ resume
    /\ pc = "finished"
    /\ checkpoint.exists /\ Readable(checkpoint)
    /\ checkpoint.listings = all_listings
    /\ all_listings = <<Unenriched(ItemA), Merge(Unenriched(ItemA)),
                        Merge(Unenriched(ItemB))>>
    /\ ItemA \in Range(failed_urls)
    /\ processed_urls = {ItemA, ItemB}

\* C34: while one process runs, after its checkpoint load, the
\* accumulation set and the FailedSet change only by entries added at the
\* end and the ProcessedSet only by members added: no step of the crawl,
\* no save and no shutdown removes, moves or rewrites an entry.
IsPrefix(s, t) ==
    /\ Len(s) <= Len(t)
    /\ \A k \in DOMAIN s : t[k] = s[k]
C34_CollectionsOnlyGrow ==
    [][run' = run
       => /\ IsPrefix(all_listings, all_listings')
          /\ IsPrefix(failed_urls, failed_urls')
          /\ processed_urls \subseteq processed_urls']_vars
C34_Witness ==
    /\ pc = "exited"
    /\ Len(all_listings) = 2
    /\ all_listings[1] # all_listings[2]
    /\ Len(failed_urls) = 2
    /\ processed_urls # {}
    /\ checkpoint.exists /\ Readable(checkpoint)
    /\ checkpoint.listings = all_listings

\* C35: with fetch_details off, a run appends every card it has extracted
\* to the accumulation set and never changes the ProcessedSet, which so
\* stays empty; a resumed run therefore extracts the cards of the same
\* index unfiltered and appends them after the Records it has loaded.
C35_SummariesAppendedLedgerUntouched ==
    [][~fetch_details
       => /\ processed_urls' = {}
          /\ (pc = "gather" /\ pc' = "finished")
             => /\ all_listings' = all_listings \o all_listing_cards'
                /\ \A p \in Pages :
                     (/\ htmls'[p] = "html"
                      /\ \A q \in Pages : q < p => htmls'[q] = "html"
                      /\ \A q \in Pages : q <= p => site[q] # << >>)
                     => \A k \in DOMAIN site[p] :
                          Unenriched(site[p][k]) \in Range(all_listing_cards')
                /\ (run > 1 /\ resume /\ checkpoint.exists
                    /\ Readable(checkpoint))
                   => all_listings'
                        = checkpoint.listings \o all_listing_cards']_vars
C35_Witness ==
    /\ ~fetch_details
    /\ run = 2
    /\ resume
    /\ pc = "finished"
    /\ processed_urls = {}
    /\ all_listing_cards # << >>
    /\ all_listings = all_listing_cards \o all_listing_cards
    /\ checkpoint.exists /\ Readable(checkpoint)
    /\ checkpoint.listings = all_listings

\* C32: a URL is added to the FailedSet only by a fetch of it that has
\* used up its retries, i.e. that has made max_retries + 1 failed network
\* attempts; a status-200 answer with an empty body, or a cancellation,
\* never adds one.
C32_FailedOnlyAfterExhaustion ==
    [][(run' = run /\ failed_urls' # failed_urls)
       => \E t \in FetchIds :
            /\ fetch'[t].pc = "done"
            /\ fetch'[t].result = "None"
            /\ fetch'[t].attempts = max_retries + 1
            /\ failed_urls' = Append(failed_urls, fetch'[t].url)]_vars

\* C33: in one enrichment attempt whose fetch uses up its retries the
\* detail URL is appended to the FailedSet twice when the last failed
\* network attempt was a timeout or a transport error, once by fetch_page
\* and once by fetch_listing_details, and once when it was a non-200
\* status, by fetch_listing_details alone; nothing else is appended
\* during the attempt.
DetailUrl == fetch[DetailId].url
DetailExhausted(f) == f.pc = "done" /\ f.result = "None"
C33_FailedDetailRecordedOnceOrTwice ==
    /\ [][(pc = "detail_fetch" /\ pc' \in {"detail_fetch", "append"})
          => IF ~DetailExhausted(fetch[DetailId])
                /\ DetailExhausted(fetch'[DetailId])
             THEN /\ fetch'[DetailId].attempts = max_retries + 1
                  /\ failed_urls'
                       = IF fetch'[DetailId].last_failure
                              \in {"timeout", "error"}
                         THEN Append(failed_urls, DetailUrl)
                         ELSE failed_urls
             ELSE IF DetailExhausted(fetch[DetailId]) /\ pc' = "append"
                  THEN failed_urls' = Append(failed_urls, DetailUrl)
                  ELSE pc' = "detail_fetch"
                       => failed_urls' = failed_urls]_vars
    /\ [](pc = "append" /\ DetailExhausted(fetch[DetailId])
          => LET n == Len(failed_urls)
             IN /\ n >= 1
                /\ failed_urls[n] = DetailUrl
                /\ fetch[DetailId].last_failure \in {"timeout", "error"}
                   => n >= 2 /\ failed_urls[n - 1] = DetailUrl)
C33_Witness ==
    /\ pc = "append"
    /\ DetailExhausted(fetch[DetailId])
    /\ max_retries = 1
    /\ fetch[DetailId].attempts = 2
    /\ fetch[DetailId].last_failure = "timeout"
    /\ failed_urls = <<DetailUrl, DetailUrl>>

====
